---------------------------- MODULE Spec2Model ----------------------------
(***************************************************************************)
(* Model of the v2 HTTP client utilities of the Python SDK:                *)
(*   firecrawl/v2/utils/http_client.py        (HttpClient, blocking)       *)
(*   firecrawl/v2/utils/http_client_async.py  (AsyncHttpClient)            *)
(* Strings are TLA+ strings; urllib.parse is modelled character by         *)
(* character.  Optional values are tuples: <<>> is None, <<v>> is v.       *)
(* The endpoint alphabet has no ';', no whitespace and no control          *)
(* characters, so urlparse's params field is always empty.                 *)
(***************************************************************************)
EXTENDS Integers, Sequences, FiniteSets, TLC

VARIABLES api_key, api_url, bc, ac, client, probe

vars == <<api_key, api_url, bc, ac, client, probe>>

(***************************************************************************)
(* Bounds                                                                  *)
(***************************************************************************)
MaxRetries == 3
MaxClose == 2
\* most attempts of a call that runs concurrently with another
MaxConcRetries == 2
\* most direct invocations of the header builders in one behaviour
MaxAllocs == 2

(***************************************************************************)
(* Optional values                                                         *)
(***************************************************************************)
None == <<>>

Some(v) == <<v>>

IsNone(o) == o = <<>>

Val(o) == o[1]

(***************************************************************************)
(* str helpers                                                             *)
(***************************************************************************)
Ch(s, i) == SubSeq(s, i, i)

Contains(s, c) == \E i \in 1..Len(s) : Ch(s, i) = c

\* str.find(c), 1-based; 0 when c does not occur
Find(s, c) ==
  IF Contains(s, c)
  THEN CHOOSE i \in 1..Len(s) : Ch(s, i) = c /\ \A j \in 1..(i - 1) : Ch(s, j) # c
  ELSE 0

\* str.rfind(c), 1-based; 0 when c does not occur
RFind(s, c) ==
  IF Contains(s, c)
  THEN CHOOSE i \in 1..Len(s) : Ch(s, i) = c /\ \A j \in (i + 1)..Len(s) : Ch(s, j) # c
  ELSE 0

StartsWith(s, p) == Len(s) >= Len(p) /\ SubSeq(s, 1, Len(p)) = p

EndsWith(s, p) == Len(s) >= Len(p) /\ SubSeq(s, Len(s) - Len(p) + 1, Len(s)) = p

From(s, i) == SubSeq(s, i, Len(s))

UpperAlpha == "ABCDEFGHIJKLMNOPQRSTUVWXYZ"

LowerAlpha == "abcdefghijklmnopqrstuvwxyz"

Digits == "0123456789"

LowerCh(c) ==
  IF Contains(UpperAlpha, c) THEN Ch(LowerAlpha, Find(UpperAlpha, c)) ELSE c

RECURSIVE lower(_)
lower(s) == IF s = "" THEN "" ELSE LowerCh(Ch(s, 1)) \o lower(From(s, 2))

RECURSIVE lstrip(_, _)
lstrip(s, c) == IF s # "" /\ Ch(s, 1) = c THEN lstrip(From(s, 2), c) ELSE s

RECURSIVE rstrip(_, _)
rstrip(s, c) ==
  IF s # "" /\ Ch(s, Len(s)) = c THEN rstrip(SubSeq(s, 1, Len(s) - 1), c) ELSE s

\* str.strip() on the whitespace of the alphabet (the space)
strip(s) == rstrip(lstrip(s, " "), " ")

\* str.split(c) as a sequence of strings
RECURSIVE split(_, _)
split(s, c) ==
  LET i == Find(s, c)
  IN  IF i = 0 THEN <<s>> ELSE <<SubSeq(s, 1, i - 1)>> \o split(From(s, i + 1), c)

\* c.join(parts)
RECURSIVE join(_, _)
join(parts, c) ==
  IF parts = <<>> THEN ""
  ELSE IF Len(parts) = 1 THEN parts[1]
  ELSE parts[1] \o c \o join(Tail(parts), c)

(***************************************************************************)
(* urllib.parse                                                            *)
(***************************************************************************)
scheme_chars == LowerAlpha \o UpperAlpha \o Digits \o "+-."

\* first index >= start of one of '/', '?', '#'; Len(url) + 1 when none
NetlocEnd(url, start) ==
  LET hits == {i \in start..Len(url) : Contains("/?#", Ch(url, i))}
  IN  IF hits = {} THEN Len(url) + 1
      ELSE CHOOSE i \in hits : \A j \in hits : i <= j

\* s.partition(c) without the separator: <<before, after>>
Partition(s, c) ==
  IF Contains(s, c)
  THEN <<SubSeq(s, 1, Find(s, c) - 1), From(s, Find(s, c) + 1)>>
  ELSE <<s, "">>

\* urlsplit, scheme: <<scheme, rest>>
SplitScheme(url) ==
  IF /\ Find(url, ":") > 1
     /\ Contains(LowerAlpha \o UpperAlpha, Ch(url, 1))
     /\ \A k \in 1..(Find(url, ":") - 1) : Contains(scheme_chars, Ch(url, k))
  THEN <<lower(SubSeq(url, 1, Find(url, ":") - 1)), From(url, Find(url, ":") + 1)>>
  ELSE <<"", url>>

\* urlsplit, _splitnetloc: <<netloc, rest>>
SplitNetloc(url) ==
  IF StartsWith(url, "//")
  THEN <<SubSeq(url, 3, NetlocEnd(url, 3) - 1), From(url, NetlocEnd(url, 3))>>
  ELSE <<"", url>>

ParseResult(scheme, netloc, pq, fragment) ==
  [scheme |-> scheme, netloc |-> netloc, path |-> pq[1], params |-> "",
   query |-> pq[2], fragment |-> fragment,
   raises |-> Contains(netloc, "[") # Contains(netloc, "]")]

ParseFragment(scheme, netloc, uf) ==
  ParseResult(scheme, netloc, Partition(uf[1], "?"), uf[2])

ParseNetloc(scheme, nr) == ParseFragment(scheme, nr[1], Partition(nr[2], "#"))

ParseScheme(sr) == ParseNetloc(sr[1], SplitNetloc(sr[2]))

\* urlparse(url): the six components, and whether urlsplit raises ValueError
urlparse(url) == ParseScheme(SplitScheme(url))

\* host part of "host:port" or "[host]:port"
HostOf(hostinfo) ==
  IF Contains(hostinfo, "[")
  THEN Partition(Partition(hostinfo, "[")[2], "]")[1]
  ELSE Partition(hostinfo, ":")[1]

\* ParseResult.hostname; "" stands for None (the callers write `hostname or ""`)
hostname(p) == lower(HostOf(From(p.netloc, RFind(p.netloc, "@") + 1)))

UnparseFragment(url, fragment) ==
  IF fragment # "" THEN url \o "#" \o fragment ELSE url

UnparseQuery(url, query, fragment) ==
  UnparseFragment(IF query # "" THEN url \o "?" \o query ELSE url, fragment)

UnparseScheme(scheme, url, query, fragment) ==
  UnparseQuery(IF scheme # "" THEN scheme \o ":" \o url ELSE url, query, fragment)

\* urlunparse((scheme, netloc, path, params, query, fragment)), params = ""
urlunparse(scheme, netloc, path, query, fragment) ==
  UnparseScheme(scheme,
    IF netloc # "" \/ (scheme \in {"http", "https"} /\ ~StartsWith(path, "//"))
    THEN "//" \o netloc \o
         (IF path # "" /\ ~StartsWith(path, "/") THEN "/" \o path ELSE path)
    ELSE path,
    query, fragment)

\* segments[1:-1] = filter(None, segments[1:-1])
RECURSIVE DropEmpty(_)
DropEmpty(segs) ==
  IF segs = <<>> THEN <<>>
  ELSE IF segs[1] = "" THEN DropEmpty(Tail(segs))
  ELSE <<segs[1]>> \o DropEmpty(Tail(segs))

FilterInner(segs) ==
  IF Len(segs) <= 2 THEN segs
  ELSE <<segs[1]>> \o DropEmpty(SubSeq(segs, 2, Len(segs) - 1)) \o <<segs[Len(segs)]>>

\* the dot-segment loop of urljoin
RECURSIVE Resolve(_, _)
Resolve(segs, acc) ==
  IF segs = <<>> THEN acc
  ELSE IF segs[1] = ".."
       THEN Resolve(Tail(segs), IF acc = <<>> THEN acc ELSE SubSeq(acc, 1, Len(acc) - 1))
  ELSE IF segs[1] = "." THEN Resolve(Tail(segs), acc)
  ELSE Resolve(Tail(segs), Append(acc, segs[1]))

\* base_parts of urljoin: the base path's segments without the last one
BaseParts(parts) ==
  IF parts[Len(parts)] # "" THEN SubSeq(parts, 1, Len(parts) - 1) ELSE parts

Segments(bpath, path) ==
  IF StartsWith(path, "/") THEN split(path, "/")
  ELSE FilterInner(BaseParts(split(bpath, "/")) \o split(path, "/"))

ResolvedPath(segments) ==
  IF segments[Len(segments)] \in {".", ".."}
  THEN Append(Resolve(segments, <<>>), "")
  ELSE Resolve(segments, <<>>)

JoinPath(joined) == IF joined = "" THEN "/" ELSE joined

\* urljoin once both URLs are parsed; u is urlparse(url, bscheme)
JoinParsed(url, b, u) ==
  IF u.scheme # b.scheme \/ u.scheme \notin {"http", "https"} THEN url
  ELSE IF u.netloc # ""
       THEN urlunparse(u.scheme, u.netloc, u.path, u.query, u.fragment)
  ELSE IF u.path = ""
       THEN urlunparse(u.scheme, b.netloc, b.path,
                       IF u.query = "" THEN b.query ELSE u.query, u.fragment)
  ELSE urlunparse(u.scheme, b.netloc,
                  JoinPath(join(ResolvedPath(Segments(b.path, u.path)), "/")),
                  u.query, u.fragment)

\* urlparse(url, default_scheme)
WithDefaultScheme(u, bscheme) ==
  IF u.scheme = "" THEN [u EXCEPT !.scheme = bscheme] ELSE u

JoinBase(url, b, u) == JoinParsed(url, b, WithDefaultScheme(u, b.scheme))

\* urljoin(base, url) for an http(s) base
urljoin(base, url) ==
  IF base = "" THEN url
  ELSE IF url = "" THEN base
  ELSE JoinBase(url, urlparse(base), urlparse(url))

(***************************************************************************)
(* Shared pieces of both clients                                           *)
(***************************************************************************)
\* get_version(), read once at import
version == "4.3.6"

OriginValue == "python-sdk@" \o version

\* `x and x.strip()` for an Optional[str] api_key
KeyUsable(key) == ~IsNone(key) /\ Val(key) # "" /\ strip(Val(key)) # ""

\* dict item assignment d[k] = v
SetItem(d, k, v) == (k :> v) @@ d

\* {**a, **b}
Merge(a, b) == b @@ a

EmptyDict == [k \in {} |-> ""]

\* data.setdefault('origin', ...): the caller's origin wins
StampOrigin_setdefault(data) ==
  IF "origin" \in DOMAIN data THEN data ELSE SetItem(data, "origin", OriginValue)

\* HttpClient.post: data['origin'] = f'python-sdk@{version}', on the caller's dict
StampOrigin(data) == SetItem(data, "origin", OriginValue)

\* AsyncHttpClient.post: payload = dict(data); payload["origin"] = ...
Payload(data) == SetItem(data, "origin", OriginValue)

(***************************************************************************)
(* HttpClient (blocking)                                                   *)
(***************************************************************************)
OrSlash(path) == IF path # "" THEN path ELSE "/"

OrHttps(scheme) == IF scheme # "" THEN scheme ELSE "https"

\* the `if endpoint.startswith("//")` branch of _build_url
BuildProtocolRelative(base, ep2) ==
  [raises |-> ep2.raises,
   url |-> urlunparse(OrHttps(base.scheme), base.netloc, OrSlash(ep2.path),
                      ep2.query, "")]

\* _build_url that keeps the endpoint's scheme when the hosts are equal
BuildParsed_endpoint_scheme(base_url, endpoint, base, ep) ==
  IF base.raises \/ ep.raises THEN [raises |-> TRUE, url |-> ""]
  ELSE IF ep.netloc # ""
       THEN IF hostname(ep) # hostname(base)
            THEN [raises |-> FALSE,
                  url |-> urlunparse(OrHttps(base.scheme), base.netloc,
                                     OrSlash(ep.path), ep.query, "")]
            ELSE [raises |-> FALSE,
                  url |-> urlunparse(OrHttps(ep.scheme), base.netloc,
                                     OrSlash(ep.path), ep.query, "")]
  ELSE IF StartsWith(endpoint, "//")
       THEN BuildProtocolRelative(base, urlparse("https:" \o endpoint))
  ELSE [raises |-> FALSE,
        url |-> urljoin(IF EndsWith(base_url, "/") THEN base_url ELSE base_url \o "/",
                        endpoint)]

\* _build_url once base and endpoint are parsed
BuildParsed(base_url, endpoint, base, ep) ==
  IF base.raises \/ ep.raises THEN [raises |-> TRUE, url |-> ""]
  ELSE IF ep.netloc # ""
       THEN IF hostname(ep) # hostname(base)
            THEN [raises |-> FALSE,
                  url |-> urlunparse(OrHttps(base.scheme), base.netloc,
                                     OrSlash(ep.path), ep.query, "")]
            ELSE [raises |-> FALSE,
                  url |-> urlunparse(OrHttps(base.scheme), base.netloc,
                                     OrSlash(ep.path), ep.query, "")]
  ELSE IF StartsWith(endpoint, "//")
       THEN BuildProtocolRelative(base, urlparse("https:" \o endpoint))
  ELSE [raises |-> FALSE,
        url |-> urljoin(IF EndsWith(base_url, "/") THEN base_url ELSE base_url \o "/",
                        endpoint)]

\* _build_url without the forced host: the endpoint is joined to the base
_build_url_joined(base_url, endpoint) ==
  [raises |-> urlparse(endpoint).raises,
   url |-> IF urlparse(endpoint).raises THEN ""
           ELSE urljoin(IF EndsWith(base_url, "/") THEN base_url ELSE base_url \o "/",
                        endpoint)]

\* HttpClient._build_url; raises is urlparse's ValueError
_build_url(base_url, endpoint) ==
  BuildParsed(base_url, endpoint, urlparse(base_url), urlparse(endpoint))

\* a comparison that accepts every host ending with the base host
SameParsedHost_suffix(parsed_target, parsed_base) ==
  IF parsed_target.raises \/ parsed_base.raises THEN FALSE
  ELSE EndsWith(lower(rstrip(hostname(parsed_target), ".")),
                lower(rstrip(hostname(parsed_base), ".")))

\* a comparison that answers True when the endpoint cannot be parsed
SameParsedHost_fail_open(parsed_target, parsed_base) ==
  IF parsed_target.raises \/ parsed_base.raises THEN TRUE
  ELSE lower(rstrip(hostname(parsed_target), ".")) =
       lower(rstrip(hostname(parsed_base), "."))

\* the try block of _is_same_host: False when urlparse raises
SameParsedHost(parsed_target, parsed_base) ==
  IF parsed_target.raises \/ parsed_base.raises THEN FALSE
  ELSE lower(rstrip(hostname(parsed_target), ".")) =
       lower(rstrip(hostname(parsed_base), "."))

\* HttpClient._is_same_host
_is_same_host(base_url, endpoint) ==
  IF ~(StartsWith(endpoint, "http://") \/ StartsWith(endpoint, "https://"))
  THEN TRUE
  ELSE SameParsedHost(urlparse(endpoint), urlparse(base_url))

\* `if idempotency_key: headers['x-idempotency-key'] = idempotency_key`
WithIdempotencyKey(headers, idempotency_key) ==
  IF ~IsNone(idempotency_key) /\ Val(idempotency_key) # ""
  THEN SetItem(headers, "x-idempotency-key", Val(idempotency_key))
  ELSE headers

\* _prepare_headers that adds the idempotency key on the same-host branch only
_prepare_headers_idem_gated(key, base_url, endpoint, idempotency_key) ==
  IF _is_same_host(base_url, endpoint)
  THEN WithIdempotencyKey(
         IF KeyUsable(key)
         THEN SetItem([k \in {"Content-Type"} |-> "application/json"],
                      "Authorization", "Bearer " \o strip(Val(key)))
         ELSE [k \in {"Content-Type"} |-> "application/json"],
         idempotency_key)
  ELSE [k \in {"Content-Type"} |-> "application/json"]

\* HttpClient._prepare_headers
_prepare_headers(key, base_url, endpoint, idempotency_key) ==
  WithIdempotencyKey(
    IF KeyUsable(key) /\ _is_same_host(base_url, endpoint)
    THEN SetItem([k \in {"Content-Type"} |-> "application/json"],
                 "Authorization", "Bearer " \o strip(Val(key)))
    ELSE [k \in {"Content-Type"} |-> "application/json"],
    idempotency_key)

(***************************************************************************)
(* AsyncHttpClient (suspending)                                            *)
(***************************************************************************)
\* AsyncHttpClient._is_same_host
a_is_same_host(base_url, endpoint) ==
  IF ~(StartsWith(endpoint, "http://") \/ StartsWith(endpoint, "https://"))
  THEN TRUE
  ELSE SameParsedHost(urlparse(endpoint), urlparse(base_url))

\* _headers without the same-host condition
_headers_ungated(key, base_url, endpoint, idempotency_key) ==
  WithIdempotencyKey(
    IF KeyUsable(key)
    THEN SetItem(EmptyDict, "Authorization", "Bearer " \o strip(Val(key)))
    ELSE EmptyDict,
    idempotency_key)

\* AsyncHttpClient._headers
_headers(key, base_url, endpoint, idempotency_key) ==
  WithIdempotencyKey(
    IF KeyUsable(key) /\ a_is_same_host(base_url, endpoint)
    THEN SetItem(EmptyDict, "Authorization", "Bearer " \o strip(Val(key)))
    ELSE EmptyDict,
    idempotency_key)

\* The URL httpx.AsyncClient(base_url=api_url) sends a request for `endpoint`
\* to: a URL with both a scheme and a host is used as it is, anything else
\* is appended (path and query only) to the base URL.
MergeParsed(base, ep) ==
  IF ep.scheme # "" /\ hostname(ep) # ""
  THEN urlunparse(ep.scheme, ep.netloc, ep.path, ep.query, "")
  ELSE base.scheme \o "://" \o base.netloc
       \o (IF EndsWith(base.path, "/") THEN base.path ELSE base.path \o "/")
       \o lstrip(IF ep.query # "" THEN ep.path \o "?" \o ep.query ELSE ep.path, "/")

client_url(base_url, endpoint) == MergeParsed(urlparse(base_url), urlparse(endpoint))

(***************************************************************************)
(* Inputs of the calls                                                     *)
(***************************************************************************)
\* the threads that may call the blocking client; bc holds one call per thread
Threads == {"t1", "t2"}

\* the thread that makes the call in Spec
MainThread == {"t1"}

Keys == {None, Some("   "), Some("k1"), Some(" k2 ")}

BaseUrls == {"https://api.example.com/", "http://api.example.com:8080/v2"}

Endpoints ==
  {"/v2/scrape", "v2/scrape?a=1", "", "x#frag",
   "//evil.com/x?y=1",
   "https://api.example.com/v2/x", "http://API.example.com.:443/x",
   "https://evil.com/x?y=1", "https://evil.com",
   "https://api.example.com.evil.com/x", "https://sub.api.example.com/x",
   "https://api.example.com../x",
   "HTTP://other/x",
   "http:/evil.com/x",
   "http://[evil/x"}

Verbs == {"GET", "POST", "DELETE"}

DataArgs == {[url |-> "https://example.com"],
             [url |-> "https://example.com", origin |-> "caller"]}

HeaderArgs == {None, Some(EmptyDict), Some([Accept |-> "text/plain"])}

IdempotencyKeys == {None, Some(""), Some("idem-1")}

Timeouts == {None, Some(30)}

BackoffFactors == {1, 2}

Statuses == {200, 500, 502}

\* subclasses of requests.RequestException the transport raises
TransportFaults == {"ConnectionError", "Timeout"}

Response(status, n) == [kind |-> "response", status |-> status, type |-> "", attempt |-> n]

Raise(type, n) == [kind |-> "exception", status |-> 0, type |-> type, attempt |-> n]

RECURSIVE Pow2(_)
Pow2(n) == IF n = 0 THEN 1 ELSE 2 * Pow2(n - 1)

(***************************************************************************)
(* The helpers tabulated over the inputs: each is evaluated once per       *)
(* argument tuple, the actions look the results up                         *)
(***************************************************************************)
\* self._prepare_headers(endpoint) and _prepare_headers(endpoint, idempotency_key)
prepared_headers ==
  [key \in Keys, base_url \in BaseUrls, endpoint \in Endpoints,
   idempotency_key \in IdempotencyKeys |->
     _prepare_headers(key, base_url, endpoint, idempotency_key)]

\* self._headers(endpoint) and _headers(endpoint, idempotency_key)
built_headers ==
  [key \in Keys, base_url \in BaseUrls, endpoint \in Endpoints,
   idempotency_key \in IdempotencyKeys |->
     _headers(key, base_url, endpoint, idempotency_key)]

\* self._build_url(endpoint)
built_url ==
  [base_url \in BaseUrls, endpoint \in Endpoints |-> _build_url(base_url, endpoint)]

\* self._is_same_host(endpoint), blocking client
same_host ==
  [base_url \in BaseUrls, endpoint \in Endpoints |-> _is_same_host(base_url, endpoint)]

\* self._is_same_host(endpoint), suspending client
a_same_host ==
  [base_url \in BaseUrls, endpoint \in Endpoints |-> a_is_same_host(base_url, endpoint)]

\* the URL the httpx client sends a request for `endpoint` to
sent_url ==
  [base_url \in BaseUrls, endpoint \in Endpoints |-> client_url(base_url, endpoint)]

\* urlparse(endpoint) raises
unparsable == [endpoint \in Endpoints |-> urlparse(endpoint).raises]

\* every URL a request is made with, and the base URLs
Urls ==
  BaseUrls \cup {built_url[b, e].url : b \in BaseUrls, e \in Endpoints}
           \cup {sent_url[b, e] : b \in BaseUrls, e \in Endpoints}

\* urlparse of every URL and endpoint
parsed == [url \in Urls \cup Endpoints |-> urlparse(url)]

\* the host a URL names, lower-cased, "" when it names none
host_of == [url \in Urls |-> hostname(parsed[url])]

\* the host a URL names, without trailing dots
site_of == [url \in Urls |-> rstrip(host_of[url], ".")]

\* what requests.<verb>(url, ...) can do: without a host in the URL requests
\* raises InvalidURL (a RequestException) before anything is sent
TransportOutcomes(url, n) ==
  IF host_of[url] = ""
  THEN {Raise("InvalidURL", n)}
  ELSE {Response(st, n) : st \in Statuses} \cup {Raise(f, n) : f \in TransportFaults}

(***************************************************************************)
(* State                                                                   *)
(***************************************************************************)
IdleCall ==
  [pc |-> "idle", verb |-> "", endpoint |-> "", headers_arg |-> None,
   data_arg |-> None, data |-> None, timeout |-> None, retries |-> 0,
   backoff_factor |-> 0, headers |-> EmptyDict, url |-> "", attempt |-> 0,
   last_exception |-> None, calls |-> <<>>, sleeps |-> <<>>, outcomes |-> <<>>,
   result |-> None, builder_calls |-> 0, caller_headers |-> None]

IdleAsync ==
  [pc |-> "idle", verb |-> "", endpoint |-> "", headers_arg |-> None,
   data_arg |-> None, data |-> None, timeout |-> None,
   calls |-> <<>>, outcomes |-> <<>>, result |-> None, client_calls |-> 0,
   builder_calls |-> 0, caller_headers |-> None]

NoProbe ==
  [fn |-> "", endpoint |-> "", idempotency_key |-> None,
   headers |-> EmptyDict, url |-> "", raises |-> FALSE, same |-> FALSE,
   objs |-> <<>>]

\* no call has been made yet, on either client
Solo == (\A t \in Threads : bc[t].pc = "idle") /\ ac.pc = "idle"

Init ==
  /\ api_key \in Keys
  /\ api_url \in BaseUrls
  /\ bc = [t \in Threads |-> IdleCall]
  /\ ac = IdleAsync
  /\ client = [is_closed |-> FALSE, aclose_calls |-> 0, releases |-> 0]
  /\ probe = NoProbe

(***************************************************************************)
(* HttpClient.get / post / delete                                          *)
(***************************************************************************)
\* `raise last_exception or Exception("Unexpected error in ... request")`
Fallthrough(c) ==
  IF IsNone(c.last_exception) THEN Some(Raise("Exception", c.attempt))
  ELSE c.last_exception

\* the built headers with the caller's on top of them
ChosenHeaders_merged(headers_arg, endpoint) ==
  Merge(prepared_headers[api_key, api_url, endpoint, None],
        IF IsNone(headers_arg) THEN EmptyDict ELSE Val(headers_arg))

\* `if headers is None: headers = self._prepare_headers(endpoint)`
ChosenHeaders(headers_arg, endpoint) ==
  IF IsNone(headers_arg)
  THEN prepared_headers[api_key, api_url, endpoint, None]
  ELSE Val(headers_arg)

\* verbs that write Content-Type into the mapping the caller passed
HeadersLeft_stamped(headers_arg) ==
  IF IsNone(headers_arg) THEN None
  ELSE Some(SetItem(Val(headers_arg), "Content-Type", "application/json"))

\* what the verbs of HttpClient do to the mapping the caller passed as
\* headers: they read it and pass it on
HeadersLeft(headers_arg) == headers_arg

\* the part of a verb before its `for attempt in range(retries)` loop, and
\* the loop's entry
Enter(t, verb, endpoint, data_arg, headers_arg, timeout, retries, backoff_factor) ==
  LET data    == IF verb = "POST" THEN Some(StampOrigin(Val(data_arg))) ELSE None
      built   == built_url[api_url, endpoint]
      c0      == [IdleCall EXCEPT !.verb = verb, !.endpoint = endpoint,
                    !.headers_arg = headers_arg, !.data_arg = data_arg,
                    !.data = data, !.timeout = timeout, !.retries = retries,
                    !.backoff_factor = backoff_factor,
                    !.headers = ChosenHeaders(headers_arg, endpoint),
                    !.builder_calls = IF IsNone(headers_arg) THEN 1 ELSE 0,
                    !.caller_headers = HeadersLeft(headers_arg)]
  IN  IF built.raises
      THEN [c0 EXCEPT !.pc = "Raised", !.result = Some(Raise("ValueError", 0))]
      ELSE IF retries <= 0
      THEN [c0 EXCEPT !.pc = "Raised", !.url = built.url, !.result = Fallthrough(c0)]
      ELSE [c0 EXCEPT !.pc = "Attempting", !.url = built.url]

\* an attempt counter kept on the instance: every call sees the last one written
Store_shared_attempt(b, t, c) ==
  [u \in Threads |-> IF u = t THEN c ELSE [b[u] EXCEPT !.attempt = c.attempt]]

\* the locals of thread t's call become c; the other calls keep theirs
Store(b, t, c) == [b EXCEPT ![t] = c]

\* a verb called with arguments from the given sets
CallFrom(t, verbs, endpoints, header_args, timeouts, retry_counts, backoff_factors) ==
  /\ bc[t].pc = "idle"
  /\ \E verb \in verbs, endpoint \in endpoints, headers_arg \in header_args,
        timeout \in timeouts, retries \in retry_counts,
        backoff_factor \in backoff_factors :
       \E data_arg \in IF verb = "POST" THEN {Some(d) : d \in DataArgs} ELSE {None} :
         bc' = Store(bc, t, Enter(t, verb, endpoint, data_arg, headers_arg,
                                  timeout, retries, backoff_factor))
  /\ UNCHANGED <<api_key, api_url, ac, client, probe>>

Call(t) ==
  CallFrom(t, Verbs, Endpoints, HeaderArgs, Timeouts, 0..MaxRetries, BackoffFactors)

\* a retry on every 5xx status
Retryable5xx(c, o) == o.status >= 500 /\ c.attempt < c.retries - 1

\* a retry on 502 with `attempt < retries`
Retryable502_through_last(c, o) == o.status = 502 /\ c.attempt < c.retries

\* `response.status_code == 502` and `attempt < retries - 1`
Retryable502(c, o) == o.status = 502 /\ c.attempt < c.retries - 1

\* the except clause with `attempt == retries`
LastAttempt_past_end(c) == c.attempt = c.retries

\* `attempt == retries - 1` of the except clause
LastAttempt(c) == c.attempt = c.retries - 1

\* the same sleep after every attempt
Nap_constant(c) == c.backoff_factor

\* backoff_factor * (2 ** attempt)
Nap(c) == c.backoff_factor * Pow2(c.attempt)

\* a transport call whose retries carry a header of their own
Request_retry_header(c) ==
  [method |-> c.verb, url |-> c.url,
   headers |-> IF c.attempt = 0 THEN c.headers ELSE SetItem(c.headers, "x-retry", "1"),
   json |-> c.data, timeout |-> c.timeout]

\* requests.<verb>(url, headers=headers, [json=data,] timeout=timeout)
Request(c) ==
  [method |-> c.verb, url |-> c.url, headers |-> c.headers, json |-> c.data,
   timeout |-> c.timeout]

\* the loop body after the transport call ended with outcome o
Handle(c, o) ==
  IF o.kind = "response"
  THEN IF Retryable502(c, o)
       THEN [c EXCEPT !.pc = "BackoffSleep", !.sleeps = Append(@, Nap(c))]
       ELSE [c EXCEPT !.pc = "Returned", !.result = Some(o)]
  ELSE IF LastAttempt(c)
       THEN [c EXCEPT !.pc = "Raised", !.last_exception = Some(o), !.result = Some(o)]
       ELSE [c EXCEPT !.pc = "BackoffSleep", !.last_exception = Some(o),
                      !.sleeps = Append(@, Nap(c))]

\* one pass of the loop body: the transport call and what follows it
AfterOutcome(c, o) ==
  Handle([c EXCEPT !.calls = Append(@, Request(c)), !.outcomes = Append(@, o)], o)

Attempt(t) ==
  /\ bc[t].pc = "Attempting"
  /\ \E o \in TransportOutcomes(bc[t].url, bc[t].attempt) :
       bc' = Store(bc, t, AfterOutcome(bc[t], o))
  /\ UNCHANGED <<api_key, api_url, ac, client, probe>>

\* time.sleep returns and the loop takes its next index, or ends
AfterSleep(c) ==
  IF c.attempt + 1 < c.retries
  THEN [c EXCEPT !.pc = "Attempting", !.attempt = @ + 1]
  ELSE [c EXCEPT !.pc = "Raised", !.result = Fallthrough(c)]

Wake(t) ==
  /\ bc[t].pc = "BackoffSleep"
  /\ bc' = Store(bc, t, AfterSleep(bc[t]))
  /\ UNCHANGED <<api_key, api_url, ac, client, probe>>

(***************************************************************************)
(* AsyncHttpClient.get / post / delete / close                             *)
(***************************************************************************)
\* faults the httpx transport raises
AsyncFaults == {"ConnectError", "ReadTimeout"}

\* {**self._headers(endpoint), **(headers or {})}
MergedHeaders(headers_arg, endpoint) ==
  Merge(built_headers[api_key, api_url, endpoint, None],
        IF IsNone(headers_arg) THEN EmptyDict ELSE Val(headers_arg))

\* what the verbs of AsyncHttpClient do to the mapping the caller passed as
\* headers: they read it into a new dict
AHeadersLeft(headers_arg) == headers_arg

\* the call up to its await: the arguments are built and self._client.<verb>
\* is called once; the client either refuses the request (unparsable URL,
\* closed client) or sends it
AEnter(verb, endpoint, data_arg, headers_arg, timeout) ==
  LET payload == IF verb = "POST" THEN Some(Payload(Val(data_arg))) ELSE None
      c0      == [IdleAsync EXCEPT !.verb = verb, !.endpoint = endpoint,
                    !.headers_arg = headers_arg, !.data_arg = data_arg,
                    !.data = data_arg, !.timeout = timeout, !.client_calls = 1,
                    !.builder_calls = 1,
                    !.caller_headers = AHeadersLeft(headers_arg)]
  IN  IF unparsable[endpoint]
      THEN [c0 EXCEPT !.pc = "Raised", !.result = Some(Raise("InvalidURL", 0))]
      ELSE IF client.is_closed
      THEN [c0 EXCEPT !.pc = "Raised", !.result = Some(Raise("RuntimeError", 0))]
      ELSE [c0 EXCEPT !.pc = "Awaiting",
                      !.calls = <<[method |-> verb,
                                   url |-> sent_url[api_url, endpoint],
                                   headers |-> MergedHeaders(headers_arg, endpoint),
                                   json |-> payload,
                                   timeout |-> timeout]>>]

ACall ==
  /\ ac.pc = "idle"
  /\ \E verb \in Verbs, endpoint \in Endpoints, headers_arg \in HeaderArgs,
        timeout \in Timeouts :
       \E data_arg \in IF verb = "POST" THEN {Some(d) : d \in DataArgs} ELSE {None} :
         ac' = AEnter(verb, endpoint, data_arg, headers_arg, timeout)
  /\ UNCHANGED <<api_key, api_url, bc, client, probe>>

\* the outcomes the transport can give a request that was sent
AsyncOutcomes ==
  {Response(st, 0) : st \in Statuses} \cup {Raise(f, 0) : f \in AsyncFaults}

\* a verb that sends the request again after a 502
AComplete_retry502 ==
  /\ ac.pc = "Awaiting"
  /\ \E o \in AsyncOutcomes :
       ac' = IF o.status = 502 /\ Len(ac.calls) < MaxRetries
             THEN [ac EXCEPT !.outcomes = Append(@, o),
                             !.calls = Append(@, ac.calls[1]),
                             !.client_calls = @ + 1]
             ELSE [ac EXCEPT !.pc = IF o.kind = "response" THEN "Returned" ELSE "Raised",
                             !.outcomes = Append(@, o),
                             !.result = Some(o)]
  /\ UNCHANGED <<api_key, api_url, bc, client, probe>>

\* the awaited transport call completes
AComplete ==
  /\ ac.pc = "Awaiting"
  /\ \E o \in AsyncOutcomes :
       ac' = [ac EXCEPT !.pc = IF o.kind = "response" THEN "Returned" ELSE "Raised",
                        !.outcomes = Append(@, o),
                        !.result = Some(o)]
  /\ UNCHANGED <<api_key, api_url, bc, client, probe>>

\* the caller takes the result; the client is ready for the next call
AReturn ==
  /\ ac.pc \in {"Returned", "Raised"}
  /\ ac' = IdleAsync
  /\ UNCHANGED <<api_key, api_url, bc, client, probe>>

\* close() that hands the connections back on every invocation
Close_release_again ==
  /\ client.aclose_calls < MaxClose
  /\ client' = [is_closed |-> TRUE, aclose_calls |-> client.aclose_calls + 1,
                releases |-> client.releases + 1]
  /\ UNCHANGED <<api_key, api_url, bc, ac, probe>>

\* AsyncHttpClient.close: `await self._client.aclose()`; aclose releases the
\* connections of a client that is not closed yet and does nothing otherwise
Close ==
  /\ client.aclose_calls < MaxClose
  /\ client' = [is_closed |-> TRUE, aclose_calls |-> client.aclose_calls + 1,
                releases |-> IF client.is_closed THEN client.releases
                             ELSE client.releases + 1]
  /\ UNCHANGED <<api_key, api_url, bc, ac, probe>>

(***************************************************************************)
(* Direct invocations of the helpers, as the test files make them          *)
(***************************************************************************)
\* `headers = {...}`: the dict display makes a new object on every evaluation;
\* objects are numbered in the order they are made
NewDict(objs) == Len(objs) + 1

PrepareHeaders ==
  /\ Len(probe.objs) < MaxAllocs
  /\ \E endpoint \in Endpoints, idem \in IdempotencyKeys :
       probe' = [NoProbe EXCEPT !.fn = "_prepare_headers", !.endpoint = endpoint,
                   !.idempotency_key = idem,
                   !.headers = prepared_headers[api_key, api_url, endpoint, idem],
                   !.objs = Append(probe.objs, NewDict(probe.objs))]
  /\ UNCHANGED <<api_key, api_url, bc, ac, client>>

Headers ==
  /\ Len(probe.objs) < MaxAllocs
  /\ \E endpoint \in Endpoints, idem \in IdempotencyKeys :
       probe' = [NoProbe EXCEPT !.fn = "_headers", !.endpoint = endpoint,
                   !.idempotency_key = idem,
                   !.headers = built_headers[api_key, api_url, endpoint, idem],
                   !.objs = Append(probe.objs, NewDict(probe.objs))]
  /\ UNCHANGED <<api_key, api_url, bc, ac, client>>

BuildUrl ==
  /\ \E endpoint \in Endpoints :
       LET r == built_url[api_url, endpoint]
       IN  probe' = [NoProbe EXCEPT !.fn = "_build_url", !.endpoint = endpoint,
                       !.url = r.url, !.raises = r.raises, !.objs = probe.objs]
  /\ UNCHANGED <<api_key, api_url, bc, ac, client>>

IsSameHost ==
  /\ \E endpoint \in Endpoints :
       probe' = [NoProbe EXCEPT !.fn = "_is_same_host", !.endpoint = endpoint,
                   !.same = same_host[api_url, endpoint], !.objs = probe.objs]
  /\ UNCHANGED <<api_key, api_url, bc, ac, client>>

AIsSameHost ==
  /\ \E endpoint \in Endpoints :
       probe' = [NoProbe EXCEPT !.fn = "a_is_same_host", !.endpoint = endpoint,
                   !.same = a_same_host[api_url, endpoint], !.objs = probe.objs]
  /\ UNCHANGED <<api_key, api_url, bc, ac, client>>

(***************************************************************************)
(* Specifications                                                          *)
(***************************************************************************)
\* the first call on the blocking client
SoloCall(t) == Solo /\ Call(t)

\* the first call on the suspending client
SoloACall == Solo /\ ACall

\* one call, on either client, from its entry to its end
Next ==
  \/ \E t \in MainThread : SoloCall(t)
  \/ \E t \in MainThread : Attempt(t)
  \/ \E t \in MainThread : Wake(t)
  \/ SoloACall
  \/ AComplete

Spec == Init /\ [][Next]_vars

\* the helpers on their own
FnNext ==
  \/ PrepareHeaders
  \/ Headers
  \/ BuildUrl
  \/ IsSameHost
  \/ AIsSameHost

FnSpec == Init /\ [][FnNext]_vars

\* the suspending client with its teardown
AsyncNext ==
  \/ ACall
  \/ AComplete
  \/ AReturn
  \/ Close

AsyncSpec == Init /\ [][AsyncNext]_vars

\* a builder called directly, before any verb
SoloPrepareHeaders == Solo /\ PrepareHeaders

SoloHeaders == Solo /\ Headers

\* a verb called on a client whose builders were not called directly
FirstCall(t) == probe = NoProbe /\ SoloCall(t)

FirstACall == probe = NoProbe /\ SoloACall

\* the header builders called directly, or one call on either client
HeadersNext ==
  \/ SoloPrepareHeaders
  \/ SoloHeaders
  \/ \E t \in MainThread : FirstCall(t)
  \/ \E t \in MainThread : Attempt(t)
  \/ \E t \in MainThread : Wake(t)
  \/ FirstACall
  \/ AComplete

HeadersSpec == Init /\ [][HeadersNext]_vars

\* endpoints of concurrent calls: one on the base host, one on another host
ConcEndpoints == {"/v2/scrape", "https://evil.com/x?y=1"}

\* verbs of concurrent calls
ConcVerbs == {"GET", "DELETE"}

\* a verb called by thread t while the other threads may be inside theirs
ConcCall(t) ==
  CallFrom(t, ConcVerbs, ConcEndpoints, {None}, {None}, 1..MaxConcRetries,
           BackoffFactors)

\* one client object with a key, used by all threads
ConcInit ==
  /\ Init
  /\ api_key = Some("k1")
  /\ api_url = "https://api.example.com/"

\* the calls of the threads on one HttpClient, interleaved step by step
ConcNext ==
  \/ \E t \in Threads : ConcCall(t)
  \/ \E t \in Threads : Attempt(t)
  \/ \E t \in Threads : Wake(t)

ConcSpec == ConcInit /\ [][ConcNext]_vars

(***************************************************************************)
(* Properties                                                              *)
(***************************************************************************)
HasAuthorization(headers) == "Authorization" \in DOMAIN headers

Finished(c) == c.pc \in {"Returned", "Raised"}

Is502(o) == o.kind = "response" /\ o.status = 502

IsFault(o) == o.kind = "exception"

\* C1: a transport call of the blocking client that was made without
\* caller-supplied headers and carries the Authorization credential is sent
\* to the host of the base URL, whatever the endpoint and the verb: the
\* credential is never sent to another host.
C1_CredentialStaysOnBaseHost ==
  \A t \in Threads :
    IsNone(bc[t].headers_arg) =>
      \A i \in 1..Len(bc[t].calls) :
        (HasAuthorization(bc[t].calls[i].headers) /\ host_of[bc[t].calls[i].url] # "")
          => site_of[bc[t].calls[i].url] = site_of[api_url]

\* C1 witness: the endpoint names another host under an upper-case scheme,
\* the credential was attached and the call went out, to the base host
C1_Witness ==
  /\ bc["t1"].endpoint = "HTTP://other/x"
  /\ IsNone(bc["t1"].headers_arg)
  /\ Len(bc["t1"].calls) >= 1
  /\ HasAuthorization(bc["t1"].calls[1].headers)
  /\ site_of[bc["t1"].calls[1].url] = "api.example.com"

\* C2: a request of the suspending client that was made without
\* caller-supplied headers and carries the Authorization credential is never
\* sent to a host other than the base URL's.
C2_AsyncCredentialStaysOnBaseHost ==
  IsNone(ac.headers_arg) =>
    \A i \in 1..Len(ac.calls) :
      HasAuthorization(ac.calls[i].headers)
        => site_of[ac.calls[i].url] = site_of[api_url]

\* non-blank after trimming: some character is not a space
NonBlank(key) ==
  ~IsNone(key) /\ \E i \in 1..Len(Val(key)) : Ch(Val(key), i) # " "

\* C3: the headers built by either builder contain Authorization exactly
\* when the credential is present and non-blank after trimming and the
\* endpoint is same-origin with the base URL; its value is then "Bearer "
\* followed by the trimmed credential.
C3_AuthorizationGating ==
  /\ probe.fn = "_prepare_headers" =>
       /\ HasAuthorization(probe.headers)
            <=> (NonBlank(api_key) /\ same_host[api_url, probe.endpoint])
       /\ HasAuthorization(probe.headers)
            => probe.headers["Authorization"] = "Bearer " \o strip(Val(api_key))
  /\ probe.fn = "_headers" =>
       /\ HasAuthorization(probe.headers)
            <=> (NonBlank(api_key) /\ a_same_host[api_url, probe.endpoint])
       /\ HasAuthorization(probe.headers)
            => probe.headers["Authorization"] = "Bearer " \o strip(Val(api_key))

\* C3 witness: a padded credential, a same-host absolute endpoint, and the
\* trimmed credential in the header the suspending client's builder returned
C3_Witness ==
  /\ probe.fn = "_headers"
  /\ api_key = Some(" k2 ")
  /\ probe.endpoint = "https://api.example.com/v2/x"
  /\ HasAuthorization(probe.headers)
  /\ probe.headers["Authorization"] = "Bearer k2"

\* the endpoint shapes C4 lists: path-relative, protocol-relative, absolute
Shape(endpoint) ==
  IF StartsWith(endpoint, "//") THEN "protocol-relative"
  ELSE IF parsed[endpoint].scheme # "" /\ parsed[endpoint].netloc # "" THEN "absolute"
  ELSE IF parsed[endpoint].scheme = "" THEN "path-relative"
  ELSE "other"

C5_AsyncDispatchOnBaseHost ==
  \A i \in 1..Len(ac.calls) : site_of[ac.calls[i].url] = site_of[api_url]

\* C6: a 502 response is retried, after a sleep, while attempts remain; a
\* response with any other status ends the call at once and is what the call
\* returns; the call has then made as many transport calls as it took to get
\* that response and slept once before each retry.
C6_RetryOn502Only ==
  \A t \in Threads :
    LET c == bc[t]
    IN  /\ \A j \in 1..Len(c.outcomes) :
             (c.outcomes[j].kind = "response" /\ c.outcomes[j].status # 502) =>
               /\ j = Len(c.outcomes)
               /\ c.pc = "Returned"
               /\ c.result = Some(c.outcomes[j])
               /\ Len(c.calls) = j
               /\ Len(c.sleeps) = j - 1
        /\ \A j \in 1..Len(c.outcomes) :
             (Is502(c.outcomes[j]) /\ j < c.retries) =>
               /\ Len(c.sleeps) >= j
               /\ c.result # Some(c.outcomes[j])
        /\ c.pc = "Returned" =>
             /\ c.result = Some(c.outcomes[Len(c.outcomes)])
             /\ Len(c.calls) = Len(c.outcomes)
             /\ \A j \in 1..(Len(c.outcomes) - 1) :
                  Is502(c.outcomes[j]) \/ IsFault(c.outcomes[j])

\* C6 witness: 502, 502, 200 with retries = 3 gave the 200 after 3 calls
C6_Witness ==
  /\ bc["t1"].retries = 3
  /\ bc["t1"].pc = "Returned"
  /\ Len(bc["t1"].calls) = 3
  /\ [j \in 1..3 |-> bc["t1"].outcomes[j].status] = <<502, 502, 200>>
  /\ Val(bc["t1"].result).status = 200
  /\ Val(bc["t1"].result).attempt = 2

\* C7: when every attempt of a call with retries = N >= 1 got a 502, the
\* call ends after exactly N transport calls by returning the last 502
\* response; it does not raise.
C7_Exhausted502Returned ==
  \A t \in Threads :
    LET c == bc[t]
    IN  (/\ Finished(c)
         /\ c.retries >= 1
         /\ c.outcomes # <<>>
         /\ \A j \in 1..Len(c.outcomes) : Is502(c.outcomes[j])) =>
          /\ c.pc = "Returned"
          /\ Len(c.calls) = c.retries
          /\ c.result = Some(Response(502, c.retries - 1))

\* C7 witness: retries = 2, two 502 responses, the second one returned
C7_Witness ==
  /\ bc["t1"].retries = 2
  /\ bc["t1"].pc = "Returned"
  /\ Len(bc["t1"].calls) = 2
  /\ bc["t1"].result = Some(Response(502, 1))

\* C8: when every attempt of a call with retries = N >= 1 raised a transport
\* fault, the call ends after exactly N transport calls and N - 1 sleeps,
\* the k-th sleep lasting backoff_factor * 2^(k-1), by raising the fault of
\* the last attempt.
C8_ExhaustedFaultRaised ==
  \A t \in Threads :
    LET c == bc[t]
    IN  (/\ Finished(c)
         /\ c.retries >= 1
         /\ c.outcomes # <<>>
         /\ \A j \in 1..Len(c.outcomes) : IsFault(c.outcomes[j])) =>
          /\ c.pc = "Raised"
          /\ Len(c.calls) = c.retries
          /\ Len(c.sleeps) = c.retries - 1
          /\ \A k \in 1..Len(c.sleeps) : c.sleeps[k] = c.backoff_factor * Pow2(k - 1)
          /\ c.result = Some(c.outcomes[c.retries])
          /\ Val(c.result).attempt = c.retries - 1

\* C8 witness: a GET with retries = 2 whose two attempts raised: one sleep of
\* backoff_factor * 1, then the second fault raised
C8_Witness ==
  /\ bc["t1"].verb = "GET"
  /\ bc["t1"].retries = 2
  /\ bc["t1"].backoff_factor = 2
  /\ bc["t1"].pc = "Raised"
  /\ Len(bc["t1"].calls) = 2
  /\ bc["t1"].sleeps = <<2>>
  /\ bc["t1"].result = Some(Raise("Timeout", 1))

\* C9: for every value of retries, 0 included, a finished call has made at
\* least one and at most retries transport calls and has either returned a
\* response the transport produced or raised the fault of its last attempt.
C9_TerminalOutcomeFromTransport ==
  \A t \in Threads :
    LET c == bc[t]
    IN  Finished(c) =>
          /\ Len(c.calls) >= 1
          /\ Len(c.calls) <= c.retries
          /\ c.result = Some(c.outcomes[Len(c.outcomes)])
          /\ c.pc = "Returned" <=> Val(c.result).kind = "response"

\* C10: the body of every POST transport call, first try or retry, on either
\* client, has origin = "python-sdk@<version>", whatever origin the caller
\* passed; GET and DELETE calls have no body.
C10_PostOrigin ==
  /\ \A t \in Threads : \A i \in 1..Len(bc[t].calls) :
       IF bc[t].calls[i].method = "POST"
       THEN /\ ~IsNone(bc[t].calls[i].json)
            /\ "origin" \in DOMAIN Val(bc[t].calls[i].json)
            /\ Val(bc[t].calls[i].json)["origin"] = "python-sdk@" \o version
       ELSE IsNone(bc[t].calls[i].json)
  /\ \A i \in 1..Len(ac.calls) :
       IF ac.calls[i].method = "POST"
       THEN /\ ~IsNone(ac.calls[i].json)
            /\ "origin" \in DOMAIN Val(ac.calls[i].json)
            /\ Val(ac.calls[i].json)["origin"] = "python-sdk@" \o version
       ELSE IsNone(ac.calls[i].json)

\* C10 witness: a POST whose caller passed its own origin, at its second
\* attempt
C10_Witness ==
  /\ bc["t1"].verb = "POST"
  /\ "origin" \in DOMAIN Val(bc["t1"].data_arg)
  /\ Val(bc["t1"].data_arg)["origin"] = "caller"
  /\ Len(bc["t1"].calls) = 2
  /\ Val(bc["t1"].calls[2].json)["origin"] = "python-sdk@4.3.6"

\* C11: a blocking verb that is passed a header mapping does not invoke
\* _prepare_headers and every one of its transport calls carries exactly the
\* caller's mapping, nothing built merged into it; a verb that is passed no
\* mapping invokes the builder once and every transport call carries what it
\* built.
C11_ExplicitHeadersUsedAsGiven ==
  \A t \in Threads :
    bc[t].pc # "idle" =>
      /\ bc[t].builder_calls = (IF IsNone(bc[t].headers_arg) THEN 1 ELSE 0)
      /\ \A i \in 1..Len(bc[t].calls) :
           bc[t].calls[i].headers =
             (IF IsNone(bc[t].headers_arg)
              THEN prepared_headers[api_key, api_url, bc[t].endpoint, None]
              ELSE Val(bc[t].headers_arg))

\* C11 witness: a retried call with a usable key to the base host whose
\* caller passed {"Accept": "text/plain"}; both transport calls carry that
\* mapping alone
C11_Witness ==
  /\ KeyUsable(api_key)
  /\ bc["t1"].endpoint = "/v2/scrape"
  /\ bc["t1"].headers_arg = Some([Accept |-> "text/plain"])
  /\ Len(bc["t1"].calls) = 2
  /\ DOMAIN bc["t1"].calls[2].headers = {"Accept"}
  /\ bc["t1"].builder_calls = 0

\* C12: a verb of the suspending client that is passed a header mapping
\* sends exactly the caller's mapping, nothing built merged into it.
C12_AsyncExplicitHeadersUsedAsGiven ==
  \A i \in 1..Len(ac.calls) :
    ~IsNone(ac.headers_arg) => ac.calls[i].headers = Val(ac.headers_arg)

\* the header builders, called directly
IsBuilder(fn) == fn \in {"_prepare_headers", "_headers"}

\* C13 as stated: whenever an idempotency key is passed to a header builder,
\* the built headers contain x-idempotency-key with that value.
C13_IdempotencyHeaderWheneverSupplied ==
  (IsBuilder(probe.fn) /\ ~IsNone(probe.idempotency_key)) =>
    /\ "x-idempotency-key" \in DOMAIN probe.headers
    /\ probe.headers["x-idempotency-key"] = Val(probe.idempotency_key)

\* C13, amended: whenever a non-empty idempotency key is passed to a header
\* builder, the built headers contain x-idempotency-key with that value,
\* whether or not the endpoint is on the base host and whether or not
\* Authorization is attached; with no key or the empty string the header is
\* absent.
C13_IdempotencyHeaderForNonEmptyKey ==
  IsBuilder(probe.fn) =>
    IF ~IsNone(probe.idempotency_key) /\ Val(probe.idempotency_key) # ""
    THEN /\ "x-idempotency-key" \in DOMAIN probe.headers
         /\ probe.headers["x-idempotency-key"] = Val(probe.idempotency_key)
    ELSE "x-idempotency-key" \notin DOMAIN probe.headers

\* C13 witness: _prepare_headers with a usable key for an endpoint on another
\* host: no Authorization, and the idempotency key is there
C13_Witness ==
  /\ probe.fn = "_prepare_headers"
  /\ KeyUsable(api_key)
  /\ probe.endpoint = "https://evil.com/x?y=1"
  /\ probe.idempotency_key = Some("idem-1")
  /\ ~HasAuthorization(probe.headers)
  /\ "x-idempotency-key" \in DOMAIN probe.headers
  /\ probe.headers["x-idempotency-key"] = "idem-1"

\* one verb of the suspending client, at any point of it: the client was
\* called at most once, at most one request was sent and at most one outcome
\* came back; a finished verb called the client exactly once, and when its
\* request was sent, the verb ended with that request's outcome, a response
\* (502 included) returned and a fault raised
SingleAttempt(c) ==
  /\ c.client_calls <= 1 /\ Len(c.calls) <= 1 /\ Len(c.outcomes) <= Len(c.calls)
  /\ c.pc = "Awaiting" => c.client_calls = 1 /\ Len(c.calls) = 1 /\ Len(c.outcomes) = 0
  /\ Finished(c) =>
       /\ c.client_calls = 1
       /\ Len(c.outcomes) = Len(c.calls)
       /\ IF Len(c.outcomes) = 1
          THEN /\ c.result = Some(c.outcomes[1])
               /\ c.pc = "Returned" <=> c.outcomes[1].kind = "response"
          ELSE /\ c.pc = "Raised"
               /\ Val(c.result).type \in {"InvalidURL", "RuntimeError"}

\* C14: every get/post/delete of the suspending client makes exactly one
\* transport call; the step that receives its outcome ends the verb at once,
\* a response (a 502 as any other) returned and a fault raised: there is no
\* second call and no state in which the verb waits before another attempt.
C14_AsyncSingleAttempt ==
  /\ []SingleAttempt(ac)
  /\ [][ac.pc = "Awaiting" => Finished(ac') /\ Len(ac'.calls) = 1]_ac

\* C14 witness: a verb of the suspending client that received a 502 and
\* returned it after its only transport call
C14_Witness ==
  /\ ac.pc = "Returned"
  /\ ac.client_calls = 1
  /\ Len(ac.calls) = 1
  /\ Is502(Val(ac.result))

RECURSIVE Sum(_)
Sum(seq) == IF seq = <<>> THEN 0 ELSE seq[1] + Sum(Tail(seq))

\* the sleeps of one call of the blocking client, at any point of it: the
\* k-th sleep (k = 0, 1, ...) follows the k-th transport call, that call's
\* outcome was a 502 or a fault, it was not the last attempt, and the sleep
\* is backoff_factor * 2^k; an attempt is made only after all earlier ones
\* have slept, and a call that ended after n >= 1 transport calls slept
\* n - 1 times, backoff_factor * (2^(n-1) - 1) in all
BackoffSchedule(c) ==
  /\ \A k \in 1..Len(c.sleeps) :
       /\ c.sleeps[k] = c.backoff_factor * Pow2(k - 1)
       /\ k <= Len(c.outcomes)
       /\ Is502(c.outcomes[k]) \/ IsFault(c.outcomes[k])
       /\ k < c.retries
  /\ c.pc = "Attempting" => Len(c.sleeps) = c.attempt /\ Len(c.calls) = c.attempt
  /\ c.pc = "BackoffSleep" => Len(c.sleeps) = Len(c.calls)
  /\ (Finished(c) /\ Len(c.calls) >= 1) =>
       /\ Len(c.sleeps) = Len(c.calls) - 1
       /\ Sum(c.sleeps) = c.backoff_factor * (Pow2(Len(c.calls) - 1) - 1)

\* C15: the first attempt of a blocking verb is made without a sleep; after
\* a 502 or a fault at attempt k that is not the last attempt the verb sleeps
\* backoff_factor * 2^k and then makes attempt k + 1; nothing is slept after
\* the last attempt or a returned response, so a call that ended after n
\* transport calls slept n - 1 times, backoff_factor * (2^(n-1) - 1) in all.
C15_BackoffSchedule ==
  /\ []\A t \in Threads : BackoffSchedule(bc[t])
  /\ [][\A t \in Threads :
          /\ (bc[t].pc = "BackoffSleep" /\ bc'[t] # bc[t]) =>
               /\ bc'[t].sleeps = bc[t].sleeps
               /\ bc'[t].pc = "Attempting"
               /\ bc'[t].attempt = bc[t].attempt + 1
          /\ Len(bc'[t].sleeps) > Len(bc[t].sleeps) =>
               /\ bc'[t].pc = "BackoffSleep"
               /\ bc'[t].sleeps = Append(bc[t].sleeps,
                                         bc[t].backoff_factor * Pow2(bc[t].attempt))]_bc

\* C15 witness: a call with backoff_factor 2 that ended after three transport
\* calls and slept 2 and 4 between them
C15_Witness ==
  /\ bc["t1"].pc = "Returned"
  /\ bc["t1"].backoff_factor = 2
  /\ Len(bc["t1"].calls) = 3
  /\ bc["t1"].sleeps = <<2, 4>>

\* the call record a thread has after its verb was entered with the
\* arguments of c and its transport calls ended with the given outcomes, one
\* after the other, computed from nothing else
RECURSIVE Run(_, _)
Run(c, outcomes) ==
  IF outcomes = <<>> \/ c.pc # "Attempting" THEN c
  ELSE IF Len(outcomes) = 1 THEN AfterOutcome(c, outcomes[1])
  ELSE IF AfterOutcome(c, outcomes[1]).pc = "BackoffSleep"
  THEN Run(AfterSleep(AfterOutcome(c, outcomes[1])), Tail(outcomes))
  ELSE AfterOutcome(c, outcomes[1])

Replay(t, c) ==
  Run(Enter(t, c.verb, c.endpoint, c.data_arg, c.headers_arg, c.timeout,
            c.retries, c.backoff_factor),
      c.outcomes)

\* the records of the call of thread t that its own arguments and its own
\* transport outcomes allow: the replayed one, or that one after its sleep
OwnCourse(t, c) ==
  LET r == Replay(t, c)
  IN  IF r.pc = "BackoffSleep" THEN {r, AfterSleep(r)} ELSE {r}

\* C16: under every interleaving of concurrent verb calls on one HttpClient,
\* each call's attempt counter, sleeps, URL, headers and outcome are those
\* its own arguments and its own transport outcomes give; a step of one call
\* changes no other call's state, and api_key and api_url never change.
C16_CallsAreIndependent ==
  /\ []\A t \in Threads : bc[t].pc # "idle" => bc[t] \in OwnCourse(t, bc[t])
  /\ [][/\ api_key' = api_key
        /\ api_url' = api_url
        /\ \A t, u \in Threads : (t # u /\ bc'[t] # bc[t]) => bc'[u] = bc[u]]_vars

\* C16 witness: thread t1 sleeps after its first attempt while thread t2,
\* called after t1 and for another endpoint, has already returned from its
\* second attempt
C16_Witness ==
  /\ bc["t1"].pc = "BackoffSleep" /\ bc["t1"].attempt = 0
  /\ bc["t1"].endpoint = "/v2/scrape"
  /\ bc["t2"].pc = "Returned" /\ bc["t2"].attempt = 1
  /\ bc["t2"].endpoint = "https://evil.com/x?y=1"
  /\ Len(bc["t2"].calls) = 2
  /\ bc["t1"].backoff_factor # bc["t2"].backoff_factor

C18_CallerHeadersUntouched ==
  /\ \A t \in Threads :
       bc[t].pc # "idle" => bc[t].caller_headers = bc[t].headers_arg
  /\ ac.pc # "idle" => ac.caller_headers = ac.headers_arg
  /\ \A i, j \in 1..Len(probe.objs) : i # j => probe.objs[i] # probe.objs[j]

\* C18 witness: a retried call of the blocking client that was passed
\* {"Accept": "text/plain"} has ended, and the caller's mapping is as it was
C18_Witness ==
  /\ bc["t1"].pc = "Returned"
  /\ Len(bc["t1"].calls) = 2
  /\ bc["t1"].headers_arg = Some([Accept |-> "text/plain"])
  /\ bc["t1"].caller_headers = Some([Accept |-> "text/plain"])

\* the comparators, called directly
IsComparator(fn) == fn \in {"_is_same_host", "a_is_same_host"}

HasHttpPrefix(endpoint) ==
  StartsWith(endpoint, "http://") \/ StartsWith(endpoint, "https://")

RECURSIVE TakeUntil(_, _)
TakeUntil(s, stops) ==
  IF s = "" \/ Contains(stops, Ch(s, 1)) THEN ""
  ELSE Ch(s, 1) \o TakeUntil(From(s, 2), stops)

\* the host of an http(s) URL read off its text: what stands between "://"
\* and the first of ":", "/", "?" and "#", lower-cased
BareHost(url) == lower(TakeUntil(From(url, Find(url, ":") + 3), ":/?#"))

StripOneDot(h) == IF EndsWith(h, ".") THEN SubSeq(h, 1, Len(h) - 1) ELSE h

\* C19 as stated: _is_same_host is true for every endpoint without the
\* prefix "http://" or "https://"; with the prefix it is true exactly when the
\* two hosts, lower-cased and with one trailing dot stripped, are equal.
C19_SameHostOneDot ==
  IsComparator(probe.fn) =>
    probe.same =
      (IF HasHttpPrefix(probe.endpoint)
       THEN StripOneDot(BareHost(probe.endpoint)) = StripOneDot(BareHost(api_url))
       ELSE TRUE)

\* C19, amended: _is_same_host is true for every endpoint without the prefix
\* "http://" or "https://", the empty string included; with the prefix it is
\* true exactly when the two hosts, taken without scheme and port,
\* lower-cased and with all trailing dots stripped, are equal: a host that
\* only ends with or starts with the base host is another host.
C19_SameHostExact ==
  IsComparator(probe.fn) =>
    probe.same =
      (IF HasHttpPrefix(probe.endpoint)
       THEN rstrip(BareHost(probe.endpoint), ".") = rstrip(BareHost(api_url), ".")
       ELSE TRUE)

\* C19 witness: the comparator answered True for the base host written with
\* two trailing dots
C19_Witness ==
  /\ probe.fn = "_is_same_host"
  /\ probe.endpoint = "https://api.example.com../x"
  /\ probe.same

\* C20: when urlparse raises on an http(s)-prefixed endpoint, _is_same_host
\* returns a value, False, instead of raising, and the headers
\* _prepare_headers builds for that endpoint have no Authorization.
C20_FailClosed ==
  (probe.endpoint \in Endpoints /\ HasHttpPrefix(probe.endpoint)
     /\ unparsable[probe.endpoint]) =>
    /\ IsComparator(probe.fn) => ~probe.same
    /\ IsBuilder(probe.fn) => ~HasAuthorization(probe.headers)

\* C20 witness: _prepare_headers with a usable key for "http://[evil/x",
\* which urlparse rejects, built headers without Authorization
C20_Witness ==
  /\ probe.fn = "_prepare_headers"
  /\ KeyUsable(api_key)
  /\ probe.endpoint = "http://[evil/x"
  /\ unparsable[probe.endpoint]
  /\ DOMAIN probe.headers = {"Content-Type"}

\* C21: the URL _build_url returns, whatever the shape of the endpoint, has
\* no fragment, has path "/" when the endpoint's path is empty, and has the
\* endpoint's query string unchanged.
C21_ResolvedUrlNormalized ==
  (probe.fn = "_build_url" /\ ~probe.raises) =>
    /\ parsed[probe.url].fragment = ""
    /\ parsed[probe.endpoint].path = "" => parsed[probe.url].path = "/"
    /\ parsed[probe.url].query = parsed[probe.endpoint].query

\* C22: within one call of a blocking verb the headers are built at most once
\* and every transport call, first try or retry, is the same: the verb's
\* method, the URL resolved from the endpoint before the loop, the headers
\* chosen before the loop, the timeout passed and, for POST, the one body.
C22_SameRequestEveryAttempt ==
  \A t \in Threads :
    /\ bc[t].builder_calls <= 1
    /\ \A i \in 1..Len(bc[t].calls) :
         /\ bc[t].calls[i] = bc[t].calls[1]
         /\ bc[t].calls[i].method = bc[t].verb
         /\ bc[t].calls[i].url = built_url[api_url, bc[t].endpoint].url
         /\ bc[t].calls[i].headers = bc[t].headers
         /\ bc[t].calls[i].timeout = bc[t].timeout
         /\ bc[t].calls[i].json = bc[t].data

\* C22 witness: a POST with a timeout made its third transport call after a
\* 502 and a fault, with the request of its first
C22_Witness ==
  /\ bc["t1"].verb = "POST"
  /\ bc["t1"].timeout = Some(30)
  /\ Len(bc["t1"].calls) = 3
  /\ Is502(bc["t1"].outcomes[1])
  /\ IsFault(bc["t1"].outcomes[2])
  /\ bc["t1"].calls[3] = bc["t1"].calls[1]

\* C23: after post, on either client, the mapping the caller passed as the
\* body has the keys and values it had before the call.
C23_CallerBodyUntouched ==
  /\ \A t \in Threads :
       (bc[t].pc # "idle" /\ bc[t].verb = "POST") => bc[t].data = bc[t].data_arg
  /\ (ac.pc # "idle" /\ ac.verb = "POST") => ac.data = ac.data_arg

=============================================================================
